---------------------------- MODULE Spec2Model ----------------------------
(***************************************************************************)
(* A model of generate.py, the gift exchange pairing generator.            *)
(*                                                                         *)
(* A Python str is a sequence of one-character strings, so that lower(),   *)
(* strip(), replace(), split() and join() are computed character by        *)
(* character.  A person is the tuple <<name, groupIndex>> of line 39, a    *)
(* pairing the tuple <<giver, getter>> of line 66.  Python's lists are     *)
(* sequences, Python's set of pairings is a set.                           *)
(***************************************************************************)
EXTENDS Naturals, Sequences, FiniteSets

(***************************************************************************)
(* Bounds of the model.  maxAttempts is the parameter of                   *)
(* AttemptToGenPairings (default 1000, line 27), taken small here: the     *)
(* code only compares the counter with it.  MaxTries is where the model    *)
(* stops counting GenPairings' tries (the code never reads that counter).  *)
(***************************************************************************)
maxAttempts == 2

MaxTries == 2

---------------------------------------------------------------------------
(* Python's str operations, as generate.py uses them. *)

UpperCase ==
  << "A","B","C","D","E","F","G","H","I","J","K","L","M",
     "N","O","P","Q","R","S","T","U","V","W","X","Y","Z" >>

LowerCase ==
  << "a","b","c","d","e","f","g","h","i","j","k","l","m",
     "n","o","p","q","r","s","t","u","v","w","x","y","z" >>

\* The printable ASCII characters in code point order (the backquote, which
\* no TLA+ string holds, left out): the order in which sorted() compares the
\* characters of two names.
Ascii ==
  << " ","!","\"","#","$","%","&","'","(",")","*","+",",","-",".","/",
     "0","1","2","3","4","5","6","7","8","9",":",";","<","=",">","?",
     "@","A","B","C","D","E","F","G","H","I","J","K","L","M","N","O",
     "P","Q","R","S","T","U","V","W","X","Y","Z","[","\\","]","^","_",
     "a","b","c","d","e","f","g","h","i","j","k","l","m","n","o",
     "p","q","r","s","t","u","v","w","x","y","z","{","|","}","~" >>

Digits == << "0","1","2","3","4","5","6","7","8","9" >>

\* the rank of c in code point order: ord(c) < ord(d) iff Ord(c) < Ord(d)
Ord(c) == CHOOSE i \in 1..Len(Ascii) : Ascii[i] = c

\* str.isspace() of one character
IsSpace(c) == c \in {" ", "\t", "\n", "\r", "\f"}

\* str.lower() of one character
LowerChar(c) ==
  IF \E i \in 1..Len(UpperCase) : UpperCase[i] = c
    THEN LowerCase[CHOOSE i \in 1..Len(UpperCase) : UpperCase[i] = c]
    ELSE c

\* s.lower()
Lower(s) == [i \in 1..Len(s) |-> LowerChar(s[i])]

RECURSIVE LStrip(_)
LStrip(s) ==
  IF s # <<>> /\ IsSpace(Head(s)) THEN LStrip(Tail(s)) ELSE s

RECURSIVE RStrip(_)
RStrip(s) ==
  IF s # <<>> /\ IsSpace(s[Len(s)]) THEN RStrip(SubSeq(s, 1, Len(s) - 1)) ELSE s

\* s.strip()
Strip(s) == RStrip(LStrip(s))

\* s.replace('"', '')
RemoveQuotes(s) == SelectSeq(s, LAMBDA c : c # "\"")

\* '%d' % n for n >= 0
RECURSIVE FormatInt(_)
FormatInt(n) ==
  IF n < 10 THEN << Digits[n + 1] >>
            ELSE FormatInt(n \div 10) \o << Digits[(n % 10) + 1] >>

\* whether sep occurs in s at position i
OccursAt(s, sep, i) ==
  /\ i + Len(sep) - 1 <= Len(s)
  /\ SubSeq(s, i, i + Len(sep) - 1) = sep

\* s.split(sep): left to right, non-overlapping occurrences of sep
RECURSIVE SplitFrom(_, _, _, _)
SplitFrom(s, sep, start, i) ==
  IF i > Len(s) THEN << SubSeq(s, start, Len(s)) >>
  ELSE IF OccursAt(s, sep, i)
    THEN << SubSeq(s, start, i - 1) >> \o SplitFrom(s, sep, i + Len(sep), i + Len(sep))
    ELSE SplitFrom(s, sep, start, i + 1)

Split(s, sep) == SplitFrom(s, sep, 1, 1)

\* sep.join(parts)
RECURSIVE Join(_, _)
Join(sep, parts) ==
  IF parts = <<>> THEN <<>>
  ELSE IF Len(parts) = 1 THEN parts[1]
  ELSE parts[1] \o sep \o Join(sep, Tail(parts))

\* s < t for two str: by code point, a proper prefix first
RECURSIVE StrLess(_, _)
StrLess(s, t) ==
  IF t = <<>> THEN FALSE
  ELSE IF s = <<>> THEN TRUE
  ELSE IF Head(s) = Head(t) THEN StrLess(Tail(s), Tail(t))
  ELSE Ord(Head(s)) < Ord(Head(t))

\* the delimiter of the lastRun format (lines 24 and 139)
Delimiter == << ":", ":" >>

---------------------------------------------------------------------------
(* The values of the program. *)

\* AttemptToGenPairings' return values: None (lines 50, 86) or the set of
\* pairings (line 88)
None == [isNone |-> TRUE, value |-> {}]

Some(ps) == [isNone |-> FALSE, value |-> ps]

\* lines 37-41 with the position in the group in place of the group's index
RECURSIVE PeopleByPosition(_, _)
PeopleByPosition(grps, i) ==
  IF i > Len(grps) THEN <<>>
  ELSE [k \in 1..Len(grps[i]) |-> << grps[i][k], k - 1 >>]
         \o PeopleByPosition(grps, i + 1)

\* lines 37-41: every (name, i) of groups, in order; i counts from 0
RECURSIVE PeopleFrom(_, _)
PeopleFrom(grps, i) ==
  IF i > Len(grps) THEN <<>>
  ELSE [k \in 1..Len(grps[i]) |-> << grps[i][k], i - 1 >>] \o PeopleFrom(grps, i + 1)

People(grps) == PeopleFrom(grps, 1)

\* the list without any x, in place of list.remove(x)
ListRemoveAll(list, x) == SelectSeq(list, LAMBDA y : y # x)

\* lines 81-82 left out: the list as it is
ListKeep(list, x) == list

\* list.remove(x): the list without its first x
RECURSIVE ListRemove(_, _)
ListRemove(list, x) ==
  IF list = <<>> THEN <<>>
  ELSE IF Head(list) = x THEN Tail(list)
  ELSE << Head(list) >> \o ListRemove(Tail(list), x)

\* name.lower().strip().replace('"', '') of lines 118 and 120
CanonicalName(name) == RemoveQuotes(Strip(Lower(name)))

\* lines 114-121
PairingToString(pairing) ==
  LET giver == pairing[1]
      getter == pairing[2]
  IN  FormatInt(giver[2]) \o CanonicalName(giver[1]) \o << "-" >>
        \o FormatInt(getter[2]) \o CanonicalName(getter[1])

\* x in list
InList(x, list) == \E k \in 1..Len(list) : list[k] = x

\* line 20-24: the lastRun string of the configuration, as a list of keys
LoadLastRun(raw) ==
  LET stripped == Strip(raw)
  IN  IF stripped = <<>> THEN <<>> ELSE Split(stripped, Delimiter)

\* p < q for two persons (name, i): Python's tuple order
PersonLess(p, q) ==
  \/ StrLess(p[1], q[1])
  \/ p[1] = q[1] /\ p[2] < q[2]

\* a < b for two pairings (giver, getter)
PairingLess(a, b) ==
  \/ PersonLess(a[1], b[1])
  \/ a[1] = b[1] /\ PersonLess(a[2], b[2])

\* sorted(pairings)
RECURSIVE Sorted(_)
Sorted(ps) ==
  IF ps = {} THEN <<>>
  ELSE LET least == CHOOSE a \in ps : \A b \in ps \ {a} : PairingLess(a, b)
       IN  << least >> \o Sorted(ps \ {least})

\* lines 127-139: formatLastRun
FormatLastRun(ps) ==
  LET sorted == Sorted(ps)
      lastRuns == [k \in 1..Len(sorted) |-> PairingToString(sorted[k])]
  IN  Join(Delimiter, lastRuns)

---------------------------------------------------------------------------
(* The configurations the model is run on: cfg['groups'] and cfg['lastRun']. *)

Alice == << "A","l","i","c","e" >>

Bob == << "B","o","b" >>

Carol == << "C","a","r","o","l" >>

Dave == << "D","a","v","e" >>

\* two groups of one person each, the one cross pairing Alice -> Bob in lastRun
CfgAliceBob ==
  [groups |-> << <<Alice>>, <<Bob>> >>,
   lastRun |-> << "0","a","l","i","c","e","-","1","b","o","b" >>]

\* two groups of two, no lastRun
CfgTwoByTwo ==
  [groups |-> << <<Alice, Bob>>, <<Carol, Dave>> >>, lastRun |-> <<>>]

\* names with upper case, blanks and quotes; a lastRun string with blanks
\* around it that names Al -> Cy and Bo -> Di
CfgQuirks ==
  [groups |-> << << <<"A","l"," ">>, <<"\"","B","o","\"">> >>,
                 << <<"C","y">>, <<" ","D","i">> >> >>,
   lastRun |-> << " ","0","a","l","-","1","c","y",":",":",
                  "0","b","o","-","1","d","i"," " >>]

\* a group of three and a group of one
CfgThreeOne ==
  [groups |-> << << <<"A">>, <<"B">>, <<"C">> >>, << <<"D">> >> >>,
   lastRun |-> <<>>]

\* a group of two and two groups of one
CfgTwoOneOne ==
  [groups |-> << << <<"A">>, <<"B">> >>, << <<"C">> >>, << <<"D">> >> >>,
   lastRun |-> <<>>]

\* the same name twice in one group
CfgSameName ==
  [groups |-> << << <<"X">>, <<"X">> >>, << <<"B">>, <<"C">> >>,
                 << <<"D">>, <<"E">> >> >>,
   lastRun |-> <<>>]

\* four groups of one, one name holding the delimiter of the lastRun format
CfgDelimiterName ==
  [groups |-> << << <<"A",":",":","Z">> >>, << <<"B">> >>, << <<"C">> >>,
                 << <<"D">> >> >>,
   lastRun |-> <<>>]

Configs ==
  {CfgAliceBob, CfgTwoByTwo, CfgQuirks, CfgThreeOne, CfgTwoOneOne, CfgSameName}

RunConfigs == {CfgTwoByTwo, CfgQuirks, CfgDelimiterName}

---------------------------------------------------------------------------
(* The state. *)

VARIABLES
  groups,        \* the groups of the configuration (line 145)
  lastRun,       \* the lastRun list of the configuration (line 145)
  givers,        \* AttemptToGenPairings: the remaining givers
  getters,       \* AttemptToGenPairings: the remaining getters
  pairings,      \* AttemptToGenPairings: the set of accepted pairings
  attempts,      \* AttemptToGenPairings: the count of rejected draws
  result,        \* GenPairings: what the last attempt returned (line 97)
  tries,         \* GenPairings: the count of attempts started
  pc,            \* where the program is: "gen", "attempt", "check", "done"
  run,           \* which run of the program this is: 1 or 2
  previous       \* the pairings the run before this one returned

vars ==
  << groups, lastRun, givers, getters, pairings, attempts, result, tries, pc,
     run, previous >>

\* the locals of AttemptToGenPairings
locals == << givers, getters, pairings, attempts >>

\* the state in which GenPairings is called (line 146)
Start(cfg) ==
  /\ groups = cfg.groups
  /\ lastRun = LoadLastRun(cfg.lastRun)
  /\ givers = <<>>
  /\ getters = <<>>
  /\ pairings = {}
  /\ attempts = 0
  /\ result = None
  /\ tries = 0
  /\ pc = "gen"
  /\ run = 1
  /\ previous = {}

Init == \E cfg \in Configs : Start(cfg)

---------------------------------------------------------------------------
(* AttemptToGenPairings (lines 27-88). *)

\* line 56: a person buying for themself
SamePerson(giver, getter) == giver = getter

\* giver[0] == getter[0] in place of line 61: the names compared
SameName(giver, getter) == giver[1] = getter[1]

\* line 61: two people from the same group
SameGroup(giver, getter) == giver[2] = getter[2]

\* line 68 on a key made of the names as they are written in groups
InLastRunAsWritten(pairing, keys) ==
  InList(FormatInt(pairing[1][2]) \o pairing[1][1] \o << "-" >>
           \o FormatInt(pairing[2][2]) \o pairing[2][1], keys)

\* line 68 on the pairing and on its inverse
InLastRunEitherWay(pairing, keys) ==
  \/ InList(PairingToString(pairing), keys)
  \/ InList(PairingToString(<< pairing[2], pairing[1] >>), keys)

\* line 68: a pairing from last time
InLastRun(pairing, keys) == InList(PairingToString(pairing), keys)

\* line 75 without its second half
PairedSameWay(pairing, inverse, ps) == pairing \in ps

\* line 75: the pairing, or its inverse, is there already
AlreadyPaired(pairing, inverse, ps) == pairing \in ps \/ inverse \in ps

\* lines 56-77: whether the draw (giver, getter) is skipped
Rejected(giver, getter) ==
  \/ SamePerson(giver, getter)
  \/ SameGroup(giver, getter)
  \/ InLastRun(<< giver, getter >>, lastRun)
  \/ AlreadyPaired(<< giver, getter >>, << getter, giver >>, pairings)

\* attempts > maxAttempts + 1 in place of line 49
ExhaustedLate(n) == n > maxAttempts + 1

\* attempts >= maxAttempts in place of line 49
ExhaustedAt(n) == n >= maxAttempts

\* line 49: the counter is over the bound
Exhausted(n) == n > maxAttempts

\* return pairings in place of line 50
GiveUpPartial(ps) == Some(ps)

\* line 50: what an attempt that gives up returns, ps being its pairings
GiveUpValue(ps) == None

\* lines 84-88: what an attempt whose givers ran out returns
FinishValue(left, ps) == IF left # <<>> THEN None ELSE Some(ps)

\* lines 48, 52-53: the loop goes on and draws givers[i] and getters[j]
Draws(i, j) ==
  /\ pc = "attempt"
  /\ givers # <<>>
  /\ ~Exhausted(attempts)
  /\ i \in 1..Len(givers)
  /\ j \in 1..Len(getters)

\* a skipped draw that crosses the two people off the lists all the same
RejectAndDrop(i, j) ==
  /\ Draws(i, j)
  /\ Rejected(givers[i], getters[j])
  /\ attempts' = attempts + 1
  /\ givers' = ListRemove(givers, givers[i])
  /\ getters' = ListRemove(getters, getters[j])
  /\ UNCHANGED << groups, lastRun, pairings, result, tries, pc, run, previous >>

\* lines 56-77: a skipped draw
Reject(i, j) ==
  /\ Draws(i, j)
  /\ Rejected(givers[i], getters[j])
  /\ attempts' = attempts + 1
  /\ UNCHANGED << groups, lastRun, givers, getters, pairings, result, tries,
                  pc, run, previous >>

\* a saved draw with line 82 left out: the getter stays in its list
AcceptKeepsGetter(i, j) ==
  /\ Draws(i, j)
  /\ ~Rejected(givers[i], getters[j])
  /\ pairings' = pairings \cup {<< givers[i], getters[j] >>}
  /\ givers' = ListRemove(givers, givers[i])
  /\ UNCHANGED << groups, lastRun, getters, attempts, result, tries, pc, run,
                  previous >>

\* lines 79-82: a saved draw
Accept(i, j) ==
  /\ Draws(i, j)
  /\ ~Rejected(givers[i], getters[j])
  /\ pairings' = pairings \cup {<< givers[i], getters[j] >>}
  /\ givers' = ListRemove(givers, givers[i])
  /\ getters' = ListRemove(getters, getters[j])
  /\ UNCHANGED << groups, lastRun, attempts, result, tries, pc, run, previous >>

\* lines 48-50: too many skipped draws, the attempt gives up
GiveUp ==
  /\ pc = "attempt"
  /\ givers # <<>>
  /\ Exhausted(attempts)
  /\ result' = GiveUpValue(pairings)
  /\ pc' = "check"
  /\ UNCHANGED << groups, lastRun, locals, tries, run, previous >>

\* lines 48, 84-88: no giver is left, the attempt returns
Finish ==
  /\ pc = "attempt"
  /\ givers = <<>>
  /\ result' = FinishValue(getters, pairings)
  /\ pc' = "check"
  /\ UNCHANGED << groups, lastRun, locals, tries, run, previous >>

---------------------------------------------------------------------------
(* GenPairings (lines 90-100). *)

\* line 98 left out: whatever the attempt returned is returned
AnyResult(r) == TRUE

\* line 98: pairings is not None
GotPairings(r) == ~r.isNone

\* one more try with line 46 left out: the counter goes on from the last try
CallAttemptKeepsCounter ==
  /\ pc = "gen"
  /\ tries' = IF tries < MaxTries THEN tries + 1 ELSE tries
  /\ givers' = People(groups)
  /\ getters' = People(groups)
  /\ pairings' = {}
  /\ pc' = "attempt"
  /\ UNCHANGED << groups, lastRun, attempts, result, run, previous >>

\* lines 96-97 and 35-47: one more try, AttemptToGenPairings starts
CallAttempt ==
  /\ pc = "gen"
  /\ tries' = IF tries < MaxTries THEN tries + 1 ELSE tries
  /\ givers' = People(groups)
  /\ getters' = People(groups)
  /\ pairings' = {}
  /\ attempts' = 0
  /\ pc' = "attempt"
  /\ UNCHANGED << groups, lastRun, result, run, previous >>

\* lines 98-99: the attempt returned pairings, GenPairings returns them
Return ==
  /\ pc = "check"
  /\ GotPairings(result)
  /\ pc' = "done"
  /\ UNCHANGED << groups, lastRun, locals, result, tries, run, previous >>

\* lines 98, 100: the attempt returned None, GenPairings goes round again
Retry ==
  /\ pc = "check"
  /\ ~GotPairings(result)
  /\ pc' = "gen"
  /\ UNCHANGED << groups, lastRun, locals, result, tries, run, previous >>

---------------------------------------------------------------------------
(* The program run again on its own output (lines 145-151 and 14-25). *)

\* the lastRun line the program prints is put into the configuration, and
\* the program is started on it
NextRun ==
  /\ pc = "done"
  /\ run = 1
  /\ lastRun' = LoadLastRun(FormatLastRun(result.value))
  /\ previous' = result.value
  /\ run' = 2
  /\ givers' = <<>>
  /\ getters' = <<>>
  /\ pairings' = {}
  /\ attempts' = 0
  /\ result' = None
  /\ tries' = 0
  /\ pc' = "gen"
  /\ UNCHANGED groups

---------------------------------------------------------------------------
(* The specifications. *)

Step ==
  \/ CallAttempt
  \/ \E i \in 1..Len(givers), j \in 1..Len(getters) : Reject(i, j)
  \/ \E i \in 1..Len(givers), j \in 1..Len(getters) : Accept(i, j)
  \/ GiveUp
  \/ Finish
  \/ Return
  \/ Retry

Next == Step

\* one run of the program
Spec == Init /\ [][Next]_vars

RunsInit == \E cfg \in RunConfigs : Start(cfg)

RunsNext == Step \/ NextRun

\* two runs of the program, the second on the lastRun line of the first
RunsSpec == RunsInit /\ [][RunsNext]_vars

---------------------------------------------------------------------------
(* What GenPairings returns. *)

\* GenPairings has returned (line 99)
Returned == pc = "done"

\* the people of the configuration, as a set
PersonSet == {People(groups)[k] : k \in 1..Len(People(groups))}

\* how many times person p is listed in groups
Listed(p) == Cardinality({k \in 1..Len(People(groups)) : People(groups)[k] = p})

\* how many pairings of ps have p as giver, as getter
GivesIn(ps, p) == Cardinality({q \in ps : q[1] = p})

GetsIn(ps, p) == Cardinality({q \in ps : q[2] = p})

\* C1 as stated: a returned MatchSet has as many pairings as there are
\* people, and every person (name, groupIndex) is giver of exactly one
\* pairing and getter of exactly one.
C1_ExactlyOnce ==
  Returned =>
    /\ Cardinality(result.value) = Len(People(groups))
    /\ \A p \in PersonSet :
         GivesIn(result.value, p) = 1 /\ GetsIn(result.value, p) = 1

\* C1 as amended: a returned MatchSet has as many pairings as people are
\* listed, only listed people give and get, and every person (name,
\* groupIndex) is giver of as many pairings, and getter of as many, as the
\* number of times it is listed in groups (once, unless a name occurs twice
\* in a group).
C1_Bijection ==
  Returned =>
    /\ Cardinality(result.value) = Len(People(groups))
    /\ \A q \in result.value : q[1] \in PersonSet /\ q[2] \in PersonSet
    /\ \A p \in PersonSet :
         /\ GivesIn(result.value, p) = Listed(p)
         /\ GetsIn(result.value, p) = Listed(p)

\* a MatchSet is returned for groups that list a person twice
C1_Witness == Returned /\ \E p \in PersonSet : Listed(p) = 2

\* C2: in a returned MatchSet no giver is its own getter, and giver and
\* getter of a pairing are never of the same group.
C2_CrossGroup ==
  Returned => \A q \in result.value : q[1] # q[2] /\ q[1][2] # q[2][2]

\* a MatchSet is returned for groups of more than one person
C2_Witness ==
  /\ Returned
  /\ result.value # {}
  /\ \E k \in 1..Len(groups) : Len(groups[k]) > 1

\* C3: the canonical key of a pairing of a returned MatchSet is not in
\* lastRun.
C3_NotInHistory ==
  Returned => \A q \in result.value : ~InList(PairingToString(q), lastRun)

\* a MatchSet is returned in a run that was given a lastRun, for names
\* whose canonical form differs from the name
C3_Witness ==
  /\ Returned
  /\ lastRun # <<>>
  /\ \E q \in result.value : CanonicalName(q[1][1]) # q[1][1]

\* C4: no set of accepted pairings, during an attempt or returned, holds a
\* pairing and its reverse.
C4_NoReverse ==
  /\ \A q \in pairings : << q[2], q[1] >> \notin pairings
  /\ \A q \in result.value : << q[2], q[1] >> \notin result.value

\* during an attempt a draw is possible whose reverse is accepted already
C4_Witness ==
  /\ pc = "attempt"
  /\ \E i \in 1..Len(givers), j \in 1..Len(getters) :
       << getters[j], givers[i] >> \in pairings

---------------------------------------------------------------------------
(* Termination of GenPairings when the draws are random. *)

\* invariants 1-6 of a MatchSet ms for groups grps and the lastRun list keys
IsMatchSetOf(ms, grps, keys) ==
  LET people == People(grps)
      persons == {people[k] : k \in 1..Len(people)}
  IN  /\ Cardinality(ms) = Len(people)
      /\ \A p \in persons : GivesIn(ms, p) = 1 /\ GetsIn(ms, p) = 1
      /\ \A q \in ms :
           /\ q[1] # q[2]
           /\ q[1][2] # q[2][2]
           /\ << q[2], q[1] >> \notin ms
           /\ ~InList(PairingToString(q), keys)

IsMatchSet(ms) == IsMatchSetOf(ms, groups, lastRun)

\* the MatchSets there are for groups grps and the lastRun list keys
MatchSetsOf(grps, keys) ==
  LET people == People(grps)
      persons == {people[k] : k \in 1..Len(people)}
  IN  {ms \in {{<< p, f[p] >> : p \in persons} : f \in [persons -> persons]} :
         IsMatchSetOf(ms, grps, keys)}

FairConfigs == {CfgTwoByTwo, CfgQuirks, CfgThreeOne, CfgTwoOneOne}

\* the MatchSets of each configuration of FairConfigs
MatchSetTable ==
  [cfg \in FairConfigs |-> MatchSetsOf(cfg.groups, LoadLastRun(cfg.lastRun))]

\* the MatchSets there are for the groups and lastRun of the run
MatchSets ==
  MatchSetTable[CHOOSE cfg \in FairConfigs :
                  cfg.groups = groups /\ LoadLastRun(cfg.lastRun) = lastRun]

Feasible == MatchSets # {}

\* one of them
Target == CHOOSE ms \in MatchSets : TRUE

\* random.choice (lines 52-53) draws every pair of the lists with a chance
\* above 0, whatever was drawn before: a draw that is possible again and
\* again in one state of the attempt is made there in the end.  This is
\* that, for the draws of Target in the states that hold k pairings, all of
\* Target.
TargetAccept(k) ==
  /\ pc = "attempt"
  /\ Cardinality(pairings) = k
  /\ Feasible
  /\ pairings \subseteq Target
  /\ \E i \in 1..Len(givers), j \in 1..Len(getters) :
       /\ << givers[i], getters[j] >> \in Target
       /\ Accept(i, j)

FairInit == \E cfg \in FairConfigs : Start(cfg)

\* the most people a configuration of FairConfigs lists
MostPeople ==
  CHOOSE n \in {Len(People(cfg.groups)) : cfg \in FairConfigs} :
    \A cfg \in FairConfigs : Len(People(cfg.groups)) <= n

\* one run of the program: it goes on while it can (it is one thread, that
\* nothing stops), and its draws are random
FairSpec ==
  /\ FairInit
  /\ [][Next]_vars
  /\ WF_vars(Next)
  /\ \A k \in 0..(MostPeople - 1) : SF_vars(TargetAccept(k))

\* the inputs of C5: two groups or more, a person or more in each, four
\* people or more
ValidInput ==
  /\ Len(groups) >= 2
  /\ \A k \in 1..Len(groups) : Len(groups[k]) >= 1
  /\ Len(People(groups)) >= 4

---------------------------------------------------------------------------
(* The retry loop and the attempts that give up. *)

\* C6: GenPairings returns only the pairings of an attempt that ran to its
\* end (no giver and no getter left, never None), and after an attempt that
\* returned None the one thing it does is to start the next attempt.
C6_OnlyCompleteAttempts ==
  /\ [](Returned =>
          /\ ~result.isNone
          /\ result.value = pairings
          /\ givers = <<>> /\ getters = <<>>
          /\ Cardinality(result.value) = Len(People(groups)))
  /\ [][pc = "check" /\ result.isNone =>
          pc' = "gen" /\ UNCHANGED result]_vars
  /\ [][pc = "gen" => pc' = "attempt" /\ pairings' = {}]_vars

\* an attempt gave up with pairings accepted, and GenPairings holds its None
C6_Witness == pc = "check" /\ result.isNone /\ pairings # {}

\* the configuration of C7
IsAliceBob ==
  /\ groups = << <<Alice>>, <<Bob>> >>
  /\ lastRun = << << "0","a","l","i","c","e","-","1","b","o","b" >> >>

\* C7: for groups [[Alice],[Bob]] and lastRun 0alice-1bob no attempt runs
\* out of givers: each one ends by giving up, over the bound, with None, and
\* GenPairings never returns.
C7_AliceBobNeverReturns ==
  IsAliceBob =>
    /\ ~Returned
    /\ pc = "attempt" => givers # <<>>
    /\ pc = "check" =>
         result = None /\ attempts > maxAttempts /\ givers # <<>>

\* the second attempt, or a later one, gave up
C7_Witness == IsAliceBob /\ pc = "check" /\ result = None /\ tries >= 2

\* C8: an attempt gives up when, and only when, givers are left and the
\* counter is over maxAttempts; it then returns None, not its pairings.
C8_GiveUp ==
  /\ [][pc = "attempt" /\ givers # <<>> /\ attempts > maxAttempts =>
          pc' = "check" /\ result' = None]_vars
  /\ [][pc = "attempt" /\ pc' = "check" /\ result'.isNone =>
          givers # <<>> /\ attempts > maxAttempts]_vars
  /\ [][pc = "attempt" /\ pc' = "check" /\ givers # <<>> =>
          result' = None]_vars

\* an attempt gave up over the bound with pairings accepted
C8_Witness ==
  /\ pc = "check"
  /\ result = None
  /\ attempts = maxAttempts + 1
  /\ givers # <<>>
  /\ pairings # {}

\* C9: the second run, given the lastRun line of the first, returns no
\* pairing that the first run returned.
C9_NoRepeat == run = 2 /\ Returned => result.value \cap previous = {}

\* the configuration of C10
IsTwoByTwo ==
  /\ groups = << <<Alice, Bob>>, <<Carol, Dave>> >>
  /\ lastRun = <<>>

\* C10: for groups [[Alice,Bob],[Carol,Dave]] and no lastRun every returned
\* pairing is between one of Alice, Bob and one of Carol, Dave.
C10_TwoByTwo ==
  IsTwoByTwo /\ Returned =>
    \A q \in result.value :
      /\ q[1][1] \in {Alice, Bob} => q[2][1] \in {Carol, Dave}
      /\ q[1][1] \in {Carol, Dave} => q[2][1] \in {Alice, Bob}

\* {Alice->Carol, Bob->Dave, Carol->Bob, Dave->Alice} is returned
C10_Witness ==
  /\ IsTwoByTwo
  /\ Returned
  /\ result.value = { << <<Alice, 0>>, <<Carol, 1>> >>,
                      << <<Bob, 0>>, <<Dave, 1>> >>,
                      << <<Carol, 1>>, <<Bob, 0>> >>,
                      << <<Dave, 1>>, <<Alice, 0>> >> }

---------------------------------------------------------------------------
(* The lastRun format, and the steps of an attempt. *)

\* C12: the keys that LoadGroups reads from the lastRun line FormatPairings
\* made of a MatchSet are the canonical keys of the pairings of the MatchSet.
C12_RoundTrip ==
  run = 2 =>
    {lastRun[k] : k \in 1..Len(lastRun)} = {PairingToString(q) : q \in previous}

\* a step of the loop of AttemptToGenPairings that draws (lines 52-82)
DrawStep == pc = "attempt" /\ pc' = "attempt"

\* the reasons of C13 to reject the draw of giver g and getter r
HasReason(g, r) ==
  \/ g = r
  \/ g[2] = r[2]
  \/ \E k \in 1..Len(lastRun) : lastRun[k] = PairingToString(<< g, r >>)
  \/ << g, r >> \in pairings
  \/ << r, g >> \in pairings

\* C13: a draw (g, r) is rejected if and only if g = r, or the two are of
\* one group, or its canonical key is in lastRun, or (g, r) or (r, g) is
\* accepted already; a rejection adds exactly 1 to the counter and leaves
\* the two lists and the accepted set as they are.
C13_Reject ==
  /\ [](\A i \in 1..Len(givers), j \in 1..Len(getters) :
          Draws(i, j) =>
            /\ (ENABLED Reject(i, j)) <=> HasReason(givers[i], getters[j])
            /\ (ENABLED Accept(i, j)) <=> ~HasReason(givers[i], getters[j]))
  /\ [][DrawStep /\ pairings' = pairings =>
          /\ attempts' = attempts + 1
          /\ UNCHANGED << givers, getters, pairings >>]_vars
  /\ [][DrawStep /\ attempts' # attempts => pairings' = pairings]_vars

\* a draw was rejected for its key in lastRun alone, people still in both lists
C13_Witness ==
  /\ pc = "attempt"
  /\ attempts > 0
  /\ \E i \in 1..Len(givers), j \in 1..Len(getters) :
       /\ InList(PairingToString(<< givers[i], getters[j] >>), lastRun)
       /\ givers[i][2] # getters[j][2]
       /\ << getters[j], givers[i] >> \notin pairings

\* the list without its k-th element
WithoutAt(list, k) == SubSeq(list, 1, k - 1) \o SubSeq(list, k + 1, Len(list))

\* C14: an accepted draw (g, r) adds exactly the pairing (g, r) to the
\* accepted set, takes exactly one g out of the givers and one r out of
\* the getters, and leaves the counter and the rest of the lists as they
\* are.
C14_Accept ==
  [][DrawStep /\ pairings' # pairings =>
       \E i \in 1..Len(givers), j \in 1..Len(getters) :
         /\ << givers[i], getters[j] >> \notin pairings
         /\ pairings' = pairings \cup {<< givers[i], getters[j] >>}
         /\ givers' = WithoutAt(givers, i)
         /\ getters' = WithoutAt(getters, j)
         /\ attempts' = attempts]_vars

\* a person listed twice has given once and is still to give once
C14_Witness ==
  /\ pc = "attempt"
  /\ \E q \in pairings : InList(q[1], givers)

---------------------------------------------------------------------------
(* The two lists of an attempt. *)

\* C15: the two lists are of one length in every state, so when no giver
\* is left no getter is left either, and the attempt whose givers ran out
\* does not return None for leftover getters.
C15_Lockstep ==
  /\ Len(givers) = Len(getters)
  /\ givers = <<>> => getters = <<>>
  /\ pc = "check" /\ givers = <<>> => ~result.isNone

\* an attempt ran out of givers and returned its pairings
C15_Witness ==
  /\ pc = "check"
  /\ givers = <<>>
  /\ getters = <<>>
  /\ result = Some(pairings)
  /\ pairings # {}

\* how many times p is in list
CountIn(list, p) == Cardinality({k \in 1..Len(list) : list[k] = p})

\* an attempt starts (lines 97 and 35-47)
AttemptStarts == pc = "gen" /\ pc' = "attempt"

\* C16 as stated: every attempt starts with every person exactly once in
\* each of the two lists, no pairing accepted and the counter at 0, whatever
\* the attempts before it did; no step changes groups or lastRun.
C16_FreshExactlyOnce ==
  /\ [][AttemptStarts =>
          /\ \A p \in PersonSet :
               CountIn(givers', p) = 1 /\ CountIn(getters', p) = 1
          /\ pairings' = {}
          /\ attempts' = 0]_vars
  /\ [][UNCHANGED << groups, lastRun >>]_vars

\* C16 as amended: every attempt starts with the two lists holding the
\* people of groups and no one else, every person (name, groupIndex) as many
\* times as it is listed (once, unless a name occurs twice in a group),
\* no pairing accepted and the counter at 0, whatever the attempts before it
\* did; no step changes groups or lastRun.
C16_Fresh ==
  /\ [][AttemptStarts =>
          /\ \A k \in 1..Len(givers') : givers'[k] \in PersonSet
          /\ \A k \in 1..Len(getters') : getters'[k] \in PersonSet
          /\ \A p \in PersonSet :
               CountIn(givers', p) = Listed(p) /\ CountIn(getters', p) = Listed(p)
          /\ pairings' = {}
          /\ attempts' = 0]_vars
  /\ [][UNCHANGED << groups, lastRun >>]_vars

\* a later attempt has just started, for groups that list a person twice
C16_Witness ==
  /\ pc = "attempt"
  /\ tries >= 2
  /\ attempts = 0
  /\ pairings = {}
  /\ \E p \in PersonSet : CountIn(givers, p) = 2

---------------------------------------------------------------------------
(* Attempts that cannot go on, and the reverse of a pairing of lastRun. *)

\* givers are left and every draw there is has a reason to be rejected
Stuck ==
  /\ pc = "attempt"
  /\ givers # <<>>
  /\ \A i \in 1..Len(givers), j \in 1..Len(getters) :
       HasReason(givers[i], getters[j])

\* the configuration of C17
IsTwoOneOne ==
  /\ groups = << << <<"A">>, <<"B">> >>, << <<"C">> >>, << <<"D">> >> >>
  /\ lastRun = <<>>

\* C17: from a state of an attempt in which givers are left and every draw
\* is rejected, the attempt stays there until it gives up, over the bound,
\* with None; for groups [[A,B],[C],[D]], which have a MatchSet, GenPairings
\* returns all the same after such a state (its draws being random).
C17_StuckAttempt ==
  /\ [][Stuck =>
          \/ Stuck' /\ UNCHANGED << givers, getters, pairings >>
          \/ attempts > maxAttempts /\ pc' = "check" /\ result' = None]_vars
  /\ (IsTwoOneOne /\ Stuck) ~> Returned

\* an attempt for [[A,B],[C],[D]] cannot go on
C17_Witness == IsTwoOneOne /\ Feasible /\ Stuck /\ pairings # {}

\* C18: a draw (b, a) that has no reason to be rejected but that the key
\* of its reverse (a, b) is in lastRun is accepted: the reverse is looked
\* for in the accepted set only.
C18_ReverseOfHistory ==
  \A i \in 1..Len(givers), j \in 1..Len(getters) :
    ( /\ Draws(i, j)
      /\ InList(PairingToString(<< getters[j], givers[i] >>), lastRun)
      /\ givers[i] # getters[j]
      /\ givers[i][2] # getters[j][2]
      /\ ~InList(PairingToString(<< givers[i], getters[j] >>), lastRun)
      /\ << givers[i], getters[j] >> \notin pairings
      /\ << getters[j], givers[i] >> \notin pairings )
    => ENABLED Accept(i, j)

\* a returned MatchSet holds the reverse of a pairing of lastRun
C18_Witness ==
  /\ Returned
  /\ \E q \in result.value : InList(PairingToString(<< q[2], q[1] >>), lastRun)

---------------------------------------------------------------------------
(* The length of an attempt, and what its lists and pairings hold. *)

\* C19: an attempt ends whatever is drawn: every draw adds 1 either to the
\* counter or to the accepted pairings, the counter is never over
\* maxAttempts + 1 and the pairings never more than the people, and an
\* attempt in its loop always has a step to take; an attempt that returns
\* pairings rejected at most maxAttempts draws.
C19_AttemptEnds ==
  /\ [](attempts <= maxAttempts + 1)
  /\ [](Cardinality(pairings) <= Len(People(groups)))
  /\ [](pc = "attempt" => ENABLED Step)
  /\ [](pc \in {"check", "done"} /\ ~result.isNone => attempts <= maxAttempts)
  /\ [][DrawStep =>
          \/ /\ attempts' = attempts + 1
             /\ Cardinality(pairings') = Cardinality(pairings)
          \/ /\ attempts' = attempts
             /\ Cardinality(pairings') = Cardinality(pairings) + 1]_vars

\* an attempt returned pairings after maxAttempts rejected draws
C19_Witness ==
  /\ pc = "check"
  /\ ~result.isNone
  /\ attempts = maxAttempts
  /\ pairings # {}

\* an attempt is running or has ended
InAttempt == pc \in {"attempt", "check", "done"}

\* C20 as stated: in every state of an attempt every person is exactly once
\* among the givers of the accepted pairings and the remaining givers
\* together, exactly once among the getters of the accepted pairings and the
\* remaining getters together, and the accepted pairings and the remaining
\* givers are as many as the people.
C20_PartitionOnce ==
  InAttempt =>
    /\ \A p \in PersonSet :
         /\ GivesIn(pairings, p) + CountIn(givers, p) = 1
         /\ GetsIn(pairings, p) + CountIn(getters, p) = 1
    /\ Cardinality(pairings) + Len(givers) = Len(People(groups))

\* C20 as amended: in every state of an attempt the accepted pairings and
\* the two lists hold people of groups only, every person (name,
\* groupIndex) is among the givers of the accepted pairings and the
\* remaining givers together as many times as it is listed in groups (once,
\* unless a name occurs twice in a group), the same for the getters, and the
\* accepted pairings and the remaining givers are as many as the people.
C20_Partition ==
  InAttempt =>
    /\ \A q \in pairings : q[1] \in PersonSet /\ q[2] \in PersonSet
    /\ \A k \in 1..Len(givers) : givers[k] \in PersonSet
    /\ \A k \in 1..Len(getters) : getters[k] \in PersonSet
    /\ \A p \in PersonSet :
         /\ GivesIn(pairings, p) + CountIn(givers, p) = Listed(p)
         /\ GetsIn(pairings, p) + CountIn(getters, p) = Listed(p)
    /\ Cardinality(pairings) + Len(givers) = Len(People(groups))

\* a person listed twice has got once and is still to get once
C20_Witness ==
  /\ pc = "attempt"
  /\ givers # <<>>
  /\ \E q \in pairings : InList(q[2], getters)

=============================================================================
